---- MODULE Spec2Model ----
(***************************************************************************)
(* State-machine model of dreamerv2/agent.py: the imagination-based        *)
(* ActorCritic trainer (train, target, actor_loss, update_slow_target),    *)
(* WorldModel.imagine's discount/weight bookkeeping and WorldModel.loss.   *)
(*                                                                         *)
(* Real-valued tensors are modelled per element by exact rationals         *)
(* <<numerator, denominator>> in lowest terms; floating-point rounding is  *)
(* not modelled.  Neural networks, optimizers and the RSSM are external:   *)
(* their outputs are nondeterministic choices from small sets.             *)
(***************************************************************************)
EXTENDS Integers, Sequences, FiniteSets, TLC

(***************************************************************************)
(* Exact rational arithmetic.                                              *)
(***************************************************************************)
Abs(x) == IF x < 0 THEN -x ELSE x

RECURSIVE GCD(_, _)
GCD(a, b) == IF b = 0 THEN a ELSE GCD(b, a % b)

RNorm(n, d) ==
  LET g == GCD(Abs(n), Abs(d))
      s == IF d < 0 THEN -1 ELSE 1
  IN  <<(s * n) \div g, (s * d) \div g>>

R(n) == <<n, 1>>
RAdd(x, y) == RNorm(x[1] * y[2] + y[1] * x[2], x[2] * y[2])
RSub(x, y) == RNorm(x[1] * y[2] - y[1] * x[2], x[2] * y[2])
RMul(x, y) == RNorm(x[1] * y[1], x[2] * y[2])

(***************************************************************************)
(* Bounds of the model.                                                    *)
(***************************************************************************)
\* Number of ActorCritic.train calls explored.
MaxCalls == 5
\* Largest slow_target_update explored (cadences 1..MaxCadence).
MaxCadence == 2

VARIABLES
  \* ---- ActorCritic (the training loop) ----
  ctor,        \* constructor inputs: raw config.actor_grad, discrete action space?
  config,      \* self.config after __init__ (placeholders resolved)
  actor,       \* a parameter of self.actor
  critic,      \* the corresponding parameter of self.critic
  slow,        \* the parameter of the separately built target MLP (slow_target only)
  updates,     \* self._updates
  rewnorm,     \* number of updates of the running reward statistic self.rewnorm
  pc,          \* position inside train: 0 = not in train, k = about to run TrainOrder[k]
  result,      \* outcome of the latest train call: "none", "running", "ok", "error"
  log,         \* statements of the current/latest train call, in execution order
  targetFrom,  \* target-critic parameter read by self.target in the latest call
  endTarget,   \* target-critic parameter as the latest finished call left it
  assigns,     \* number of d.assign(...) executions so far
  calls,       \* number of train calls started
  \* ---- WorldModel.imagine ----
  wm_config,   \* WorldModel.config: pred_discount (is there a discount head), discount
  im_in,       \* arguments and external results of one imagine call
  seq,         \* seq['discount'] and seq['weight'] of the returned sequence
  im_done,     \* has imagine returned
  \* ---- ActorCritic.target ----
  tg_in,       \* seq['reward'], seq['discount'], the target critic's values, lambda
  tg_target,   \* the returned target
  tg_done,     \* has target returned
  \* ---- WorldModel.loss ----
  ls_in,       \* heads, their negative mean log-likelihoods, kl, iso inputs, loss_scales
  ls_losses,   \* the losses dict
  ls_total,    \* model_loss
  ls_done,     \* has loss returned
  \* ---- ActorCritic.actor_loss ----
  al_in,       \* config.actor_grad, seq['feat'], seq['action'], seq['weight'], target
  al_terms,    \* per time position, the operands of weight * objective
  al_done      \* has actor_loss returned

acVars == <<ctor, config, actor, critic, slow, updates, rewnorm, pc, result, log,
            targetFrom, endTarget, assigns, calls>>

imVars == <<wm_config, im_in, seq, im_done>>
tgVars == <<tg_in, tg_target, tg_done>>
lsVars == <<ls_in, ls_losses, ls_total, ls_done>>
alVars == <<al_in, al_terms, al_done>>

(***************************************************************************)
(* ActorCritic.__init__                                                    *)
(***************************************************************************)
\* Values a network parameter takes at initialisation or after an optimizer step.
ParamVals == {R(0), R(1), R(2)}
\* config.slow_target_fraction values explored.
Fractions == {<<1, 2>>, <<1, 4>>}
\* config.actor_grad values explored; "bogus" stands for any unrecognized string.
ActorGradInputs == {"auto", "dynamics", "reinforce", "both", "bogus"}
\* The modes actor_loss has a branch for.
Recognized == {"dynamics", "reinforce", "both"}

ResolveActorGrad_NoAuto(raw, discrete) == raw

\* agent.py 279-281
ResolveActorGrad(raw, discrete) ==
  IF raw = "auto" THEN (IF discrete THEN "reinforce" ELSE "dynamics") ELSE raw

TargetIsAlias_Always == TRUE

\* agent.py 284-288: without slow_target the target critic IS the critic object.
TargetIsAlias == ~config.slow_target

\* The parameter self._target_critic holds.
TargetCriticVars == IF TargetIsAlias THEN critic ELSE slow

ACInit ==
  /\ ctor \in [actor_grad : ActorGradInputs, discrete : BOOLEAN]
  /\ \E st \in BOOLEAN, c \in 1..MaxCadence, f \in Fractions :
       config = [slow_target |-> st, slow_target_update |-> c,
                 slow_target_fraction |-> f,
                 actor_grad |-> ResolveActorGrad(ctor.actor_grad, ctor.discrete)]
  /\ actor = R(0)
  /\ critic \in ParamVals
  /\ slow \in (IF config.slow_target THEN ParamVals ELSE {critic})
  /\ updates = 0
  /\ rewnorm = 0
  /\ pc = 0
  /\ result = "none"
  /\ log = <<>>
  /\ targetFrom = R(0)
  /\ endTarget = TargetCriticVars
  /\ assigns = 0
  /\ calls = 0

(***************************************************************************)
(* ActorCritic.update_slow_target                                          *)
(***************************************************************************)
CadenceFires_OffByOne(u, c) == (u + 1) % c = 0

\* agent.py 393
CadenceFires(u, c) == u % c = 0

Mix_AlwaysFraction(u, f) == f

\* agent.py 394-395
Mix(u, f) == IF u = 0 THEN R(1) ELSE f

\* agent.py 397: mix * s + (1 - mix) * d
Ema(mix, s, d) == RAdd(RMul(mix, s), RMul(RSub(R(1), mix), d))

\* agent.py 398
NextUpdates(u, c) == u + 1

\* agent.py 391-398.  With the target aliased to the critic slow_target is off
\* and nothing is written.
SlowTargetEffect ==
  IF config.slow_target
  THEN /\ IF CadenceFires(updates, config.slow_target_update)
          THEN /\ slow' = Ema(Mix(updates, config.slow_target_fraction),
                              critic, TargetCriticVars)
               /\ assigns' = assigns + 1
          ELSE UNCHANGED <<slow, assigns>>
       /\ updates' = NextUpdates(updates, config.slow_target_update)
  ELSE UNCHANGED <<slow, assigns, updates>>

(***************************************************************************)
(* ActorCritic.train, one action per statement.                            *)
(***************************************************************************)
TrainOrder_SlowTargetFirst ==
  <<"update_slow_target", "imagine", "reward", "rewnorm", "target", "actor_loss",
    "critic_loss", "actor_opt", "critic_opt">>

\* agent.py 301-313, the statements of train in program order.
TrainOrder ==
  <<"imagine", "reward", "rewnorm", "target", "actor_loss", "critic_loss",
    "actor_opt", "critic_opt", "update_slow_target">>

AtStep(name) == pc \in 1..Len(TrainOrder) /\ TrainOrder[pc] = name

\* Falling through to the next statement; after the last one train returns.
Advance(name) ==
  /\ log' = Append(log, name)
  /\ IF pc = Len(TrainOrder)
     THEN pc' = 0 /\ result' = "ok"
     ELSE pc' = pc + 1 /\ result' = result

\* The target-critic parameter a finished call leaves behind.
NoteEnd == endTarget' = IF pc' = 0 THEN TargetCriticVars' ELSE endTarget

\* agent.py 293-295: train is entered.
Begin ==
  /\ pc = 0
  /\ calls < MaxCalls
  /\ pc' = 1
  /\ calls' = calls + 1
  /\ result' = "running"
  /\ log' = <<>>
  /\ UNCHANGED <<ctor, config, actor, critic, slow, updates, rewnorm, targetFrom,
                 endTarget, assigns>>

\* agent.py 302
Imagine ==
  /\ AtStep("imagine")
  /\ Advance("imagine")
  /\ UNCHANGED <<ctor, config, actor, critic, slow, updates, rewnorm, targetFrom,
                 assigns, calls>>
  /\ NoteEnd

\* agent.py 303
Reward ==
  /\ AtStep("reward")
  /\ Advance("reward")
  /\ UNCHANGED <<ctor, config, actor, critic, slow, updates, rewnorm, targetFrom,
                 assigns, calls>>
  /\ NoteEnd

\* agent.py 304-305: the running statistic is updated and applied.
RewNorm ==
  /\ AtStep("rewnorm")
  /\ rewnorm' = rewnorm + 1
  /\ Advance("rewnorm")
  /\ UNCHANGED <<ctor, config, actor, critic, slow, updates, targetFrom, assigns,
                 calls>>
  /\ NoteEnd

\* agent.py 306 with 379: value = self._target_critic(seq['feat']).mode()
Target ==
  /\ AtStep("target")
  /\ targetFrom' = TargetCriticVars
  /\ Advance("target")
  /\ UNCHANGED <<ctor, config, actor, critic, slow, updates, rewnorm, assigns,
                 calls>>
  /\ NoteEnd

\* agent.py 307 with 332-347: an unrecognized mode raises NotImplementedError,
\* which nothing in train catches: the call ends here.
ActorLoss ==
  /\ AtStep("actor_loss")
  /\ IF config.actor_grad \in Recognized
     THEN Advance("actor_loss")
     ELSE /\ pc' = 0
          /\ result' = "error"
          /\ log' = Append(log, "actor_loss")
  /\ UNCHANGED <<ctor, config, actor, critic, slow, updates, rewnorm, targetFrom,
                 assigns, calls>>
  /\ NoteEnd

\* agent.py 308-309
CriticLoss ==
  /\ AtStep("critic_loss")
  /\ Advance("critic_loss")
  /\ UNCHANGED <<ctor, config, actor, critic, slow, updates, rewnorm, targetFrom,
                 assigns, calls>>
  /\ NoteEnd

\* agent.py 310: the actor optimizer is given self.actor only.
ActorOpt ==
  /\ AtStep("actor_opt")
  /\ actor' \in ParamVals
  /\ Advance("actor_opt")
  /\ UNCHANGED <<ctor, config, critic, slow, updates, rewnorm, targetFrom, assigns,
                 calls>>
  /\ NoteEnd

\* agent.py 311: the critic optimizer is given self.critic only.
CriticOpt ==
  /\ AtStep("critic_opt")
  /\ critic' \in ParamVals
  /\ Advance("critic_opt")
  /\ UNCHANGED <<ctor, config, actor, slow, updates, rewnorm, targetFrom, assigns,
                 calls>>
  /\ NoteEnd

\* agent.py 313
UpdateSlowTarget ==
  /\ AtStep("update_slow_target")
  /\ SlowTargetEffect
  /\ Advance("update_slow_target")
  /\ UNCHANGED <<ctor, config, actor, critic, rewnorm, targetFrom, calls>>
  /\ NoteEnd

ACNext ==
  \/ Begin
  \/ Imagine
  \/ Reward
  \/ RewNorm
  \/ Target
  \/ ActorLoss
  \/ CriticLoss
  \/ ActorOpt
  \/ CriticOpt
  \/ UpdateSlowTarget

(***************************************************************************)
(* WorldModel.imagine: discount and weight of the imagined sequence.       *)
(* Tensors are time-major: x[t][n] with t in 1..horizon+1 (source index    *)
(* t-1) and n in 1..N the flattened batch axis.                            *)
(***************************************************************************)
\* Largest imag_horizon explored by the imagine model.
MaxHorizon == 2
\* Largest number of start states (batch * time of the replayed batch).
MaxItems == 2

\* Means the discount head predicts.
HeadVals == {<<1, 2>>, <<9, 10>>}
\* config.discount values explored.
DiscountVals == {<<9, 10>>, R(1)}
\* Shapes (batch, time) of the start states and of is_terminal.
Shapes == {sh \in (1..MaxItems) \X (1..MaxItems) : sh[1] * sh[2] <= MaxItems}

RECURSIVE Flatten(_)
\* agent.py 201: x.reshape([-1] + list(x.shape[2:])) of a [batch][time] tensor.
Flatten(x) == IF x = <<>> THEN <<>> ELSE x[1] \o Flatten(Tail(x))

\* x[:-1]
Front(x) == SubSeq(x, 1, Len(x) - 1)

\* Elementwise product of two rows.
RowMul(x, y) == [n \in 1..Len(x) |-> RMul(x[n], y[n])]

\* tf.ones_like of a row.
OnesLike(row) == [n \in 1..Len(row) |-> R(1)]

TrueFirst_IgnoreTerminal(is_terminal, discount) ==
  [n \in 1..Len(Flatten(is_terminal)) |-> discount]

\* agent.py 218-219: (1.0 - flatten(is_terminal)) * config.discount
TrueFirst(is_terminal, discount) ==
  LET flat == Flatten(is_terminal)
  IN  [n \in 1..Len(flat) |-> RMul(RSub(R(1), R(flat[n])), discount)]

\* agent.py 213-223.  head is the discount head's mean over seq['feat'] (one row
\* per time index); rows and items give the shape of seq['feat'][..., 0].
ImagineDiscount(cfg, head, given, is_terminal, rows, items) ==
  IF cfg.pred_discount
  THEN IF given
       THEN <<TrueFirst(is_terminal, cfg.discount)>> \o Tail(head)
       ELSE head
  ELSE [t \in 1..rows |-> [n \in 1..items |-> cfg.discount]]

Shifted_NoShift(disc) == disc

\* agent.py 227: tf.concat([tf.ones_like(disc[:1]), disc[:-1]], 0)
Shifted(disc) == <<OnesLike(disc[1])>> \o Front(disc)

RECURSIVE CumProd(_)
\* tf.math.cumprod(x, 0)
CumProd(x) ==
  IF Len(x) <= 1 THEN x
  ELSE LET prev == CumProd(Front(x))
       IN  Append(prev, RowMul(prev[Len(prev)], x[Len(x)]))

\* agent.py 226-227
ImagineWeight(disc) == CumProd(Shifted(disc))

ImInit ==
  /\ wm_config \in [pred_discount : BOOLEAN, discount : DiscountVals]
  /\ \E sh \in Shapes, h \in 0..MaxHorizon, g \in BOOLEAN :
       \E it \in [1..sh[1] -> [1..sh[2] -> {0, 1}]] :
         im_in = [horizon |-> h, items |-> sh[1] * sh[2], given |-> g,
                  is_terminal |-> IF g THEN it ELSE <<>>, head |-> <<>>]
  /\ seq = [discount |-> <<>>, weight |-> <<>>]
  /\ im_done = FALSE

ImParked ==
  /\ wm_config = [pred_discount |-> FALSE, discount |-> R(1)]
  /\ im_in = [horizon |-> 0, items |-> 1, given |-> FALSE, is_terminal |-> <<>>,
              head |-> <<>>]
  /\ seq = [discount |-> <<>>, weight |-> <<>>]
  /\ im_done = FALSE

\* agent.py 200-228.  The rollout loop (206-211) appends horizon entries to the
\* start entry, so every stacked tensor has horizon+1 rows; the discount head's
\* output over them is an external result.
DoImagine ==
  /\ ~im_done
  /\ LET rows == im_in.horizon + 1 IN
     \E head \in [1..rows -> [1..im_in.items -> HeadVals]] :
       LET disc == ImagineDiscount(wm_config, head, im_in.given, im_in.is_terminal,
                                   rows, im_in.items)
       IN  /\ im_in' = [im_in EXCEPT !.head = IF wm_config.pred_discount
                                                THEN head ELSE <<>>]
           /\ seq' = [discount |-> disc, weight |-> ImagineWeight(disc)]
  /\ im_done' = TRUE
  /\ UNCHANGED wm_config

ImNext == DoImagine

(***************************************************************************)
(* ActorCritic.target.  lambda_return works elementwise over the batch     *)
(* axis, so one batch item is modelled: x[t], t in 1..H+1 (source index    *)
(* t-1).                                                                   *)
(***************************************************************************)
\* Normalised rewards of the imagined steps.
RewardVals == {R(0), R(1)}
\* Modes of the target critic's value distribution.
ValueVals == {R(0), R(2)}
\* Discounts of the imagined sequence.
SeqDiscountVals == {<<1, 2>>, R(1)}
\* config.discount_lambda values explored.
LambdaVals == {R(0), <<1, 2>>, R(1)}

RECURSIVE LambdaReturn(_, _, _, _, _)
\* common.lambda_return(reward, value, pcont, bootstrap, lambda_, axis=0):
\* return[t] = reward[t] + pcont[t] * ((1-lambda)*value[t+1] + lambda*return[t+1])
\* where past the end both value and return are the bootstrap.
LambdaReturn(reward, value, pcont, bootstrap, lambda) ==
  IF reward = <<>> THEN <<>>
  ELSE LET rest == LambdaReturn(Tail(reward), Tail(value), Tail(pcont), bootstrap,
                                lambda)
           nextValue == IF Len(value) > 1 THEN value[2] ELSE bootstrap
           nextReturn == IF rest = <<>> THEN bootstrap ELSE rest[1]
       IN  <<RAdd(reward[1],
                  RMul(pcont[1], RAdd(RMul(RSub(R(1), lambda), nextValue),
                                      RMul(lambda, nextReturn))))>> \o rest

TargetOf_BootstrapNotSkipped(reward, disc, value, lambda) ==
  LambdaReturn(reward, value, disc, value[Len(value)], lambda)

\* agent.py 377-385: the last time step is dropped from reward, value and
\* discount and value[-1] is the bootstrap.
TargetOf(reward, disc, value, lambda) ==
  LambdaReturn(Front(reward), Front(value), Front(disc), value[Len(value)], lambda)

TgInit ==
  /\ \E h \in 1..MaxHorizon :
       tg_in \in [reward : [1..h + 1 -> RewardVals],
                  discount : [1..h + 1 -> SeqDiscountVals],
                  value : [1..h + 1 -> ValueVals],
                  lambda : LambdaVals]
  /\ tg_target = <<>>
  /\ tg_done = FALSE

TgParked ==
  /\ tg_in = [reward |-> <<R(0), R(0)>>, discount |-> <<R(1), R(1)>>,
              value |-> <<R(0), R(0)>>, lambda |-> R(0)]
  /\ tg_target = <<>>
  /\ tg_done = FALSE

\* agent.py 371-389
DoTarget ==
  /\ ~tg_done
  /\ tg_target' = TargetOf(tg_in.reward, tg_in.discount, tg_in.value, tg_in.lambda)
  /\ tg_done' = TRUE
  /\ UNCHANGED tg_in

TgNext == DoTarget

(***************************************************************************)
(* WorldModel.loss: the losses dict and the total.                         *)
(***************************************************************************)
\* Observation keys the decoder may produce a distribution for.
DecoderKeySets == {{"image"}, {"image", "vector"}}
\* Values of the scalar loss terms (kl_loss, -like.mean(), the distortion measure).
TermVals == {R(1), R(3)}
\* iso_reg values explored (0.1 is the constructor default).
IsoRegVals == {R(0), <<1, 10>>}
\* Names config.loss_scales may have an entry for, and the entries' values.
ScaledNames == {"kl", "image", "iso"}
ScaleVals == {R(0), R(2)}
LossScales == UNION {[names -> ScaleVals] : names \in SUBSET ScaledNames}

\* agent.py 98-102: the head registry.
Heads(pred_discount) ==
  {"decoder", "reward"} \cup (IF pred_discount THEN {"discount"} ELSE {})

\* agent.py 129: a head's output is a dict of distributions or one distribution
\* under the head's name.
DistKeys(head, decoder_keys) == IF head = "decoder" THEN decoder_keys ELSE {head}

AllDistKeys(pred_discount, decoder_keys) ==
  UNION {DistKeys(h, decoder_keys) : h \in Heads(pred_discount)}

ScaleOf_DefaultZero(scales, k) == IF k \in DOMAIN scales THEN scales[k] ELSE R(0)

\* agent.py 142: self.config.loss_scales.get(k, 1.0)
ScaleOf(scales, k) == IF k \in DOMAIN scales THEN scales[k] ELSE R(1)

RECURSIVE SumOver(_, _)
\* sum(f[k] for k in keys)
SumOver(keys, f) ==
  IF keys = {} THEN R(0)
  ELSE LET k == CHOOSE x \in keys : TRUE
       IN  RAdd(f[k], SumOver(keys \ {k}, f))

\* agent.py 122-138: kl first, then one entry per distribution of every head,
\* then 'iso', each assignment replacing an earlier entry of the same name.
LossesOf(in) ==
  ("iso" :> RMul(in.iso_reg, in.measure))
    @@ [k \in AllDistKeys(in.pred_discount, in.decoder_keys) |-> in.nll[k]]
    @@ ("kl" :> in.kl)

\* agent.py 141-142
ModelLoss(scales, losses) ==
  SumOver(DOMAIN losses, [k \in DOMAIN losses |-> RMul(ScaleOf(scales, k), losses[k])])

LsInit ==
  /\ \E pd \in BOOLEAN, dk \in DecoderKeySets :
       ls_in \in [pred_discount : {pd}, decoder_keys : {dk}, kl : TermVals,
                  nll : [AllDistKeys(pd, dk) -> TermVals], measure : TermVals,
                  iso_reg : IsoRegVals, loss_scales : LossScales]
  /\ ls_losses = <<>>
  /\ ls_total = R(0)
  /\ ls_done = FALSE

LsParked ==
  /\ ls_in = [pred_discount |-> FALSE, decoder_keys |-> {"image"}, kl |-> R(1),
              nll |-> [k \in {"image", "reward"} |-> R(1)], measure |-> R(1),
              iso_reg |-> <<1, 10>>, loss_scales |-> <<>>]
  /\ ls_losses = <<>>
  /\ ls_total = R(0)
  /\ ls_done = FALSE

\* agent.py 115-153
DoLoss ==
  /\ ~ls_done
  /\ ls_losses' = LossesOf(ls_in)
  /\ ls_total' = ModelLoss(ls_in.loss_scales, LossesOf(ls_in))
  /\ ls_done' = TRUE
  /\ UNCHANGED ls_in

LsNext == DoLoss

(***************************************************************************)
(* ActorCritic.actor_loss.  The loss is -(weight[:-2] * objective).mean(), *)
(* every factor an elementwise combination of aligned slices; for one      *)
(* batch item the model keeps, per position of the slices, which entries   *)
(* of the sequence are combined.  x[t], t in 1..H+1, is source index t-1.  *)
(* An operand the mode does not read is <<>>, one it reads is <<value>>.   *)
(***************************************************************************)
\* Largest imag_horizon explored by the actor-loss model (smallest is 2).
MaxLossHorizon == 3

\* Tokens standing for feature vectors, sampled actions, targets and weights.
FeatVals == {0, 1}
ActionVals == {1, 2}
TargetVals == {0, 1}
WeightVals == {0, 1}

\* agent.py 204: the start action is tf.zeros_like(...).
StartAction == 0

\* x[:-2]
DropLast2(x) == SubSeq(x, 1, Len(x) - 2)
\* x[1:]
DropFirst(x) == SubSeq(x, 2, Len(x))
\* x[1:-1]
Inner(x) == SubSeq(x, 2, Len(x) - 1)

\* agent.py 331: self.actor(tf.stop_gradient(seq['feat'][:-2]))
PolicyFeat(feat) == DropLast2(feat)

\* agent.py 333, 336, 341, 344: target[1:]
ObjectiveTarget(target) == DropFirst(target)

\* agent.py 337, 342: seq['action'][1:-1]
LogProbAction(action) == Inner(action)

\* agent.py 335, 340: self._target_critic(seq['feat'][:-2])
BaselineFeat(feat) == DropLast2(feat)

LossWeight_Shifted(weight) == Inner(weight)

\* agent.py 352: weight[:-2]
LossWeight(weight) == DropLast2(weight)

\* agent.py 331-352 for a recognized mode.
ActorLossTerms(mode, feat, action, weight, target) ==
  LET policy == PolicyFeat(feat)
      usesLogProb == mode \in {"reinforce", "both"}
  IN  [i \in 1..Len(policy) |->
        [policy_feat |-> policy[i],
         target |-> ObjectiveTarget(target)[i],
         action |-> IF usesLogProb THEN <<LogProbAction(action)[i]>> ELSE <<>>,
         baseline_feat |-> IF usesLogProb THEN <<BaselineFeat(feat)[i]>> ELSE <<>>,
         entropy_feat |-> policy[i],
         weight |-> LossWeight(weight)[i]]]

\* A sequence as imagine (agent.py 204-212) and target (377-385) leave it:
\* H+1 features, actions and weights, the first action zero and the first
\* weight 1, and H targets.
AlInit ==
  /\ \E h \in 2..MaxLossHorizon :
       al_in \in [mode : Recognized,
                  feat : [1..h + 1 -> FeatVals],
                  action : {a \in [1..h + 1 -> ActionVals \cup {StartAction}] :
                              \A t \in 1..h + 1 : (a[t] = StartAction) <=> (t = 1)},
                  weight : {w \in [1..h + 1 -> WeightVals] : w[1] = 1},
                  target : [1..h -> TargetVals]]
  /\ al_terms = <<>>
  /\ al_done = FALSE

AlParked ==
  /\ al_in = [mode |-> "dynamics", feat |-> <<0, 0, 0>>,
              action |-> <<StartAction, 1, 1>>, weight |-> <<1, 1, 1>>,
              target |-> <<0, 0>>]
  /\ al_terms = <<>>
  /\ al_done = FALSE

\* agent.py 316-355
DoActorLoss ==
  /\ ~al_done
  /\ al_terms' = ActorLossTerms(al_in.mode, al_in.feat, al_in.action, al_in.weight,
                                al_in.target)
  /\ al_done' = TRUE
  /\ UNCHANGED al_in

AlNext == DoActorLoss

vars == <<acVars, imVars, tgVars, lsVars, alVars>>

\* An ActorCritic that has been constructed and is not being trained.
ACParked ==
  /\ ACInit
  /\ ctor = [actor_grad |-> "dynamics", discrete |-> FALSE]
  /\ config.slow_target /\ config.slow_target_update = 1
  /\ config.slow_target_fraction = <<1, 2>>
  /\ critic = R(0) /\ slow = R(0)

Init == ACInit /\ ImParked /\ TgParked /\ LsParked /\ AlParked

Next == ACNext /\ UNCHANGED <<imVars, tgVars, lsVars, alVars>>

\* The training loop of ActorCritic.
Spec == Init /\ [][Next]_vars

InitImagine == ACParked /\ ImInit /\ TgParked /\ LsParked /\ AlParked

NextImagine == ImNext /\ UNCHANGED <<acVars, tgVars, lsVars, alVars>>

\* One call of WorldModel.imagine on arbitrary inputs.
SpecImagine == InitImagine /\ [][NextImagine]_vars

InitTarget == ACParked /\ ImParked /\ TgInit /\ LsParked /\ AlParked

NextTarget == TgNext /\ UNCHANGED <<acVars, imVars, lsVars, alVars>>

\* One call of ActorCritic.target on an arbitrary sequence.
SpecTarget == InitTarget /\ [][NextTarget]_vars

InitLoss == ACParked /\ ImParked /\ TgParked /\ LsInit /\ AlParked

NextLoss == LsNext /\ UNCHANGED <<acVars, imVars, tgVars, alVars>>

\* One call of WorldModel.loss on arbitrary inputs.
SpecLoss == InitLoss /\ [][NextLoss]_vars

InitActorLoss == ACParked /\ ImParked /\ TgParked /\ LsParked /\ AlInit

NextActorLoss == AlNext /\ UNCHANGED <<acVars, imVars, tgVars, lsVars>>

\* One call of ActorCritic.actor_loss on an arbitrary imagined sequence.
SpecActorLoss == InitActorLoss /\ [][NextActorLoss]_vars

(***************************************************************************)
(* Properties of the training loop.                                        *)
(***************************************************************************)
Range(s) == {s[i] : i \in 1..Len(s)}
IsPrefix(s, t) == Len(s) <= Len(t) /\ \A i \in 1..Len(s) : s[i] = t[i]
OneMinus(x) == RSub(R(1), x)

\* update_slow_target calls that have returned: it is the last statement of a
\* train call, and a call that raises never gets to it.
SlowTargetCalls ==
  IF config.actor_grad \in Recognized
  THEN (IF pc = 0 THEN calls ELSE calls - 1)
  ELSE 0

\* C1: with slow_target enabled the update counter starts at 0 and has grown by
\* exactly one per update_slow_target call made, and the target parameters have
\* been assigned exactly on the calls that started with a counter that is a
\* multiple of slow_target_update (calls 0, C, 2C, ...): after n calls that is
\* ceil(n / C) assignments.
C1_CounterAndCadence ==
  config.slow_target =>
    /\ updates = SlowTargetCalls
    /\ assigns = (updates + config.slow_target_update - 1)
                    \div config.slow_target_update

C1_Witness ==
  /\ config.slow_target
  /\ config.slow_target_update = 2
  /\ updates = 5
  /\ assigns = 3

\* C2: with slow_target enabled the first update_slow_target call (counter 0)
\* leaves the target parameter equal to the live critic parameter; every later
\* call at which the cadence fires leaves f*critic + (1-f)*target, so the
\* difference target - critic is multiplied by (1 - f).
C2_HardCopyThenEma ==
  [][(config.slow_target /\ AtStep("update_slow_target")) =>
       LET f == config.slow_target_fraction IN
       /\ updates = 0 => TargetCriticVars' = critic
       /\ (updates > 0 /\ updates % config.slow_target_update = 0) =>
            /\ TargetCriticVars' =
                 RAdd(RMul(f, critic), RMul(OneMinus(f), TargetCriticVars))
            /\ RSub(TargetCriticVars', critic) =
                 RMul(OneMinus(f), RSub(TargetCriticVars, critic))]_vars

C2_Witness ==
  /\ config.slow_target
  /\ pc = 0
  /\ assigns >= 3
  /\ slow # critic
  /\ slow[2] > 2

\* C3 as claimed: in every configuration the target critic's parameters change
\* only by the assignment in update_slow_target.
C3_Original ==
  [][TargetCriticVars' # TargetCriticVars => AtStep("update_slow_target")]_vars

\* C3 as amended: the actor optimizer writes only the actor parameter and the
\* critic optimizer only the live critic parameter; with slow_target enabled the
\* target critic's parameter changes only in an update_slow_target call whose
\* cadence fires; with slow_target disabled the target critic is the live critic
\* and changes exactly when the critic optimizer changes the critic.
C3_TargetWrittenOnlyByEma ==
  [][/\ AtStep("actor_opt") => UNCHANGED <<critic, slow>>
     /\ AtStep("critic_opt") => UNCHANGED <<actor, slow>>
     /\ (config.slow_target /\ TargetCriticVars' # TargetCriticVars) =>
          /\ AtStep("update_slow_target")
          /\ updates % config.slow_target_update = 0
     /\ (~config.slow_target /\ TargetCriticVars' # TargetCriticVars) =>
          /\ AtStep("critic_opt")
          /\ TargetCriticVars' = critic']_vars

C3_Witness ==
  /\ config.slow_target
  /\ updates = 1
  /\ AtStep("update_slow_target")
  /\ critic # slow

\* C7: if the resolved actor_grad is not a recognized mode, no train call
\* changes the actor, critic or target parameters or the update counter, no call
\* succeeds, and a call ends only by the error raised at actor_loss, before any
\* optimizer or update_slow_target ran.  For the recognized values and for
\* 'auto' the resolved mode is recognized and no call ends in the error.
C7_BadActorGradFails ==
  /\ [](ctor.actor_grad \in Recognized \cup {"auto"} =>
          (config.actor_grad \in Recognized /\ result # "error"))
  /\ [](config.actor_grad \notin Recognized =>
          (/\ result # "ok"
           /\ Range(log) \cap {"actor_opt", "critic_opt", "update_slow_target"} = {}
           /\ result = "error" => (pc = 0 /\ log[Len(log)] = "actor_loss")))
  /\ [][config.actor_grad \notin Recognized =>
           (/\ UNCHANGED <<actor, critic, slow, updates, assigns>>
            /\ TargetCriticVars' = TargetCriticVars)]_vars

C7_Witness ==
  /\ config.actor_grad \notin Recognized
  /\ result = "error"
  /\ calls = 3
  /\ rewnorm = 3

\* The statement order C8 claims.
ClaimedOrder ==
  <<"imagine", "reward", "rewnorm", "target", "actor_loss", "critic_loss",
    "actor_opt", "critic_opt", "update_slow_target">>

\* C8: the statements of a train call run in the claimed order, and a successful
\* call has run each exactly once; the target is computed from the target-critic
\* parameter the previous call left, and an EMA assignment happens after this
\* call's critic optimizer step.
C8_TrainOrder ==
  /\ [](IsPrefix(log, ClaimedOrder) /\ (result = "ok" => log = ClaimedOrder))
  /\ [][AtStep("target") => targetFrom' = endTarget]_vars
  /\ [][(AtStep("update_slow_target") /\ assigns' # assigns) =>
          (log[Len(log)] = "critic_opt" /\ pc' = 0)]_vars

C8_Witness ==
  /\ result = "ok"
  /\ pc = 0
  /\ calls >= 2
  /\ config.slow_target
  /\ assigns >= 2
  /\ targetFrom # TargetCriticVars

(***************************************************************************)
(* Properties of WorldModel.imagine.                                       *)
(***************************************************************************)
Rows == 1..Len(seq.discount)
Items == 1..im_in.items

\* seq['discount'] with the last row's entry n replaced by v.
WithLastDiscount(n, v) ==
  [seq.discount EXCEPT ![Len(seq.discount)][n] = v]

\* C4: the returned sequence has horizon+1 rows; weight[0] = 1 for every item
\* and weight[t] = weight[t-1] * discount[t-1] for t >= 1, discount being the
\* final seq['discount']; the last discount row does not enter any weight.
C4_WeightRecurrence ==
  im_done =>
    /\ Len(seq.weight) = im_in.horizon + 1
    /\ Len(seq.discount) = im_in.horizon + 1
    /\ \A n \in Items :
         /\ seq.weight[1][n] = R(1)
         /\ \A t \in Rows \ {1} :
              seq.weight[t][n] = RMul(seq.weight[t - 1][n], seq.discount[t - 1][n])
         /\ \A v \in {R(0), R(7)} :
              ImagineWeight(WithLastDiscount(n, v)) = seq.weight

C4_Witness ==
  /\ im_done
  /\ im_in.horizon = 2
  /\ im_in.items = 2
  /\ wm_config.pred_discount /\ im_in.given
  /\ seq.weight[3] = << <<0, 1>>, <<9, 20>> >>
  /\ seq.discount[3][2] = <<9, 10>>

\* C5: with a discount head and is_terminal given, discount[0] is
\* (1 - is_terminal) * config.discount per item whatever the head predicts, and
\* discount[t] for t >= 1 is the head's prediction; with no discount head the
\* discount is config.discount everywhere.
C5_DiscountOverride ==
  im_done =>
    /\ (wm_config.pred_discount /\ im_in.given) =>
         \A n \in Items :
           /\ seq.discount[1][n] =
                (IF Flatten(im_in.is_terminal)[n] = 1 THEN R(0)
                 ELSE wm_config.discount)
           /\ \A t \in Rows \ {1} : seq.discount[t][n] = im_in.head[t][n]
    /\ ~wm_config.pred_discount =>
         \A n \in Items : \A t \in Rows : seq.discount[t][n] = wm_config.discount

C5_Witness ==
  /\ im_done
  /\ wm_config.pred_discount /\ im_in.given
  /\ wm_config.discount = <<9, 10>>
  /\ im_in.horizon = 2
  /\ im_in.is_terminal = << <<1>>, <<0>> >>
  /\ im_in.head = << << <<1, 2>>, <<1, 2>> >>, << <<1, 2>>, <<1, 2>> >>,
                     << <<1, 2>>, <<1, 2>> >> >>
  /\ seq.discount[1] = << <<0, 1>>, <<9, 10>> >>

\* The same without a discount head: is_terminal is not consulted.
C5_WitnessNoHead ==
  /\ im_done
  /\ ~wm_config.pred_discount /\ im_in.given
  /\ im_in.is_terminal = << <<1>>, <<0>> >>
  /\ seq.discount[1] = << <<9, 10>>, <<9, 10>> >>

(***************************************************************************)
(* Properties of ActorCritic.target.                                       *)
(***************************************************************************)
\* H: the sequence has H+1 entries.
TgH == Len(tg_in.reward) - 1

\* C6: the target has H entries; with lambda = 0 entry t is
\* reward[t] + discount[t] * value[t+1]; with lambda = 1 it is
\* reward[t] + discount[t] * target[t+1] with value[H] after the last entry;
\* reward[H] and discount[H] do not influence the target.
C6_TargetReturns ==
  tg_done =>
    /\ Len(tg_target) = TgH
    /\ tg_in.lambda = R(0) =>
         \A t \in 1..TgH :
           tg_target[t] =
             RAdd(tg_in.reward[t], RMul(tg_in.discount[t], tg_in.value[t + 1]))
    /\ tg_in.lambda = R(1) =>
         \A t \in 1..TgH :
           tg_target[t] =
             RAdd(tg_in.reward[t],
                  RMul(tg_in.discount[t],
                       IF t = TgH THEN tg_in.value[TgH + 1] ELSE tg_target[t + 1]))
    /\ \A r \in {R(5), R(-3)} : \A d \in {R(0), R(4)} :
         TargetOf([tg_in.reward EXCEPT ![TgH + 1] = r],
                  [tg_in.discount EXCEPT ![TgH + 1] = d],
                  tg_in.value, tg_in.lambda) = tg_target

C6_Witness ==
  /\ tg_done
  /\ tg_in.lambda = R(1)
  /\ tg_in.reward = <<R(1), R(1), R(1)>>
  /\ tg_in.discount = <<<<1, 2>>, <<1, 2>>, <<1, 2>>>>
  /\ tg_in.value = <<R(0), R(0), R(2)>>
  /\ tg_target = <<R(2), R(2)>>

(***************************************************************************)
(* Properties of WorldModel.loss.                                          *)
(***************************************************************************)
\* The only knobs the code has for the regularization term: its coefficient
\* iso_reg and its entry in loss_scales.
IsoEnabled ==
  /\ ls_in.iso_reg # R(0)
  /\ ("iso" \in DOMAIN ls_in.loss_scales => ls_in.loss_scales["iso"] # R(0))

\* The weight C9 gives a term: its loss_scales entry, 1.0 without one.
ClaimedScale(k) ==
  IF k \in DOMAIN ls_in.loss_scales THEN ls_in.loss_scales[k] ELSE R(1)

\* The distributions the registered heads produce.
ClaimedDistKeys ==
  ls_in.decoder_keys \cup {"reward"}
    \cup (IF ls_in.pred_discount THEN {"discount"} ELSE {})

\* The weighted sum of the named terms of the losses dict.
ClaimedSum(names) ==
  SumOver(names, [k \in names |-> RMul(ClaimedScale(k), ls_losses[k])])

AlH == Len(al_in.feat) - 1

\* The terms actor_loss would form from the sequence with the entries C10 says
\* are unused replaced: features and weights at H-1 and H, target 0, action 0.
TermsWithUnusedReplaced(v) ==
  ActorLossTerms(al_in.mode,
                 [al_in.feat EXCEPT ![AlH] = v, ![AlH + 1] = v],
                 [al_in.action EXCEPT ![1] = v],
                 [al_in.weight EXCEPT ![AlH] = v, ![AlH + 1] = v],
                 [al_in.target EXCEPT ![1] = v])

\* C10: for H >= 2 the loss has exactly H-1 terms per item, one for each source
\* index i in 0..H-2 (position i+1 here): the policy and its entropy at feature
\* i, the action at i+1 wherever a log-probability is taken, the target at i+1
\* and the weight at i.  Features and weights at H-1 and H, the target at 0 and
\* the start action at 0 are not used.
C10_ActorLossTerms ==
  al_done =>
    /\ Len(al_terms) = AlH - 1
    /\ \A i \in 0..AlH - 2 :
         LET term == al_terms[i + 1] IN
         /\ term.policy_feat = al_in.feat[i + 1]
         /\ term.entropy_feat = al_in.feat[i + 1]
         /\ term.target = al_in.target[i + 2]
         /\ term.weight = al_in.weight[i + 1]
         /\ term.action \in {<<>>, <<al_in.action[i + 2]>>}
         /\ al_in.mode \in {"reinforce", "both"} =>
              term.action = <<al_in.action[i + 2]>>
    /\ \A v \in {5, 6} : TermsWithUnusedReplaced(v) = al_terms

C10_Witness ==
  /\ al_done
  /\ al_in.mode = "reinforce"
  /\ al_in.feat = <<0, 1, 0, 1>>
  /\ al_in.action = <<0, 1, 2, 1>>
  /\ al_in.weight = <<1, 0, 1, 0>>
  /\ al_in.target = <<0, 1, 0>>
  /\ Len(al_terms) = 2
  /\ al_terms[1].action = <<1>> /\ al_terms[1].target = 1 /\ al_terms[1].weight = 1
  /\ al_terms[2].action = <<2>> /\ al_terms[2].target = 0 /\ al_terms[2].weight = 0

====
